---------------------------- MODULE Spec2Model ----------------------------
(***************************************************************************)
(* Differential-Equation-Explorer: the slope-field session                 *)
(* (SlopeFieldVisualization.vue, held in src/unnamed/part_001) and the     *)
(* solver session (src/src/components/EquationSolver.vue).                 *)
(*                                                                         *)
(* Numbers.  A JavaScript number is modelled in fixed point: the integer n *)
(* stands for n / Scale.  Values beyond MaxFinite overflow to PInf / NInf, *)
(* as doubles do beyond Number.MAX_VALUE, and NaN is a value of its own,   *)
(* so isFinite and the comparisons with NaN behave as in the code.  Every  *)
(* arithmetic result is rounded to the nearest representable value.  The   *)
(* abscissa of the solver's loop is kept a second time as the exact IEEE   *)
(* 754 double, which is what the loop condition compares.                  *)
(***************************************************************************)
EXTENDS Integers, Sequences, FiniteSets, TLC

(* ------------------------------ numbers -------------------------------- *)

\* Fixed-point resolution: 1.0 is Scale units, so 0.05 is 60 and 0.025 is 30.
Scale == 1200

\* Largest finite magnitude of the number model (Number.MAX_VALUE's role).
MaxFinite == 1000000

PInf == MaxFinite + 1
NInf == -(MaxFinite + 1)
NaN == MaxFinite + 2

Abs(n) == IF n < 0 THEN -n ELSE n
Sign(n) == IF n < 0 THEN -1 ELSE IF n > 0 THEN 1 ELSE 0

isFinite(a) == a >= -MaxFinite /\ a <= MaxFinite
IsInf(a) == a = PInf \/ a = NInf

\* a < b and a > b of JavaScript: false as soon as one side is NaN.
Lt(a, b) == a # NaN /\ b # NaN /\ a < b
Le(a, b) == a # NaN /\ b # NaN /\ a <= b
Gt(a, b) == Lt(b, a)

\* Overflow of a finite result to an infinity.
Norm(n) == IF n > MaxFinite THEN PInf ELSE IF n < -MaxFinite THEN NInf ELSE n

\* n / d for integers, d > 0, rounded to nearest.
RoundDiv(n, d) == Sign(n) * ((Abs(n) + d \div 2) \div d)

\* a + b
Add(a, b) ==
  IF a = NaN \/ b = NaN THEN NaN
  ELSE IF IsInf(a) THEN (IF IsInf(b) /\ b # a THEN NaN ELSE a)
  ELSE IF IsInf(b) THEN b
  ELSE Norm(a + b)

\* -a
Neg(a) == IF a = NaN THEN NaN ELSE -a

\* a - b
Sub(a, b) == Add(a, Neg(b))

\* a * b
Mul(a, b) ==
  IF a = NaN \/ b = NaN THEN NaN
  ELSE IF IsInf(a) \/ IsInf(b)
       THEN (IF a = 0 \/ b = 0 THEN NaN
             ELSE IF Sign(a) * Sign(b) > 0 THEN PInf ELSE NInf)
  ELSE IF b # 0 /\ Abs(a) > (MaxFinite * Scale) \div Abs(b)
       THEN (IF Sign(a) * Sign(b) > 0 THEN PInf ELSE NInf)
  ELSE Norm(RoundDiv(a * b, Scale))

\* a / b
Div(a, b) ==
  IF a = NaN \/ b = NaN THEN NaN
  ELSE IF IsInf(a) THEN (IF IsInf(b) THEN NaN
                         ELSE IF Sign(a) * (IF b < 0 THEN -1 ELSE 1) > 0
                              THEN PInf ELSE NInf)
  ELSE IF IsInf(b) THEN 0
  ELSE IF b = 0 THEN (IF a = 0 THEN NaN ELSE IF a > 0 THEN PInf ELSE NInf)
  ELSE Norm(Sign(b) * RoundDiv(a * Scale, Abs(b)))

\* a / n for a literal integer n > 0 (the code's h/2, k1/2 and .../6).
DivInt(a, n) == IF isFinite(a) THEN RoundDiv(a, n) ELSE a

\* n * a for a literal integer n > 0 (the code's 2*k2).
MulInt(n, a) == IF isFinite(a) THEN Norm(n * a) ELSE a

(* ------------------------------- doubles ------------------------------- *)

\* The abscissa of the solver's loop is also kept as the IEEE 754 double
\* it is, because the loop condition compares sums of rounded additions.
\* A positive double is [e, m]: m is its 53-bit significand, most
\* significant bit first, and its value is the sum of m[i] * 2^(e - i + 1).
\* Zero is the record with the empty significand.
SignificandBits == 53

DoubleZero == [e |-> 0, m |-> <<>>]

RECURSIVE Pow2(_)
Pow2(k) == IF k = 0 THEN 1 ELSE 2 * Pow2(k - 1)

\* The nine binary digits of q, for 0 <= q < 512, most significant first.
Digits9(q) == [j \in 1..9 |-> (q \div Pow2(9 - j)) % 2]

\* The significand m plus one unit in the last place.
Increment(e, m) ==
  LET zeros == {i \in 1..Len(m) : m[i] = 0}
  IN  IF zeros = {}
        THEN [e |-> e + 1, m |-> [i \in 1..Len(m) |-> IF i = 1 THEN 1 ELSE 0]]
        ELSE LET k == CHOOSE i \in zeros : \A j \in zeros : j <= i
             IN  [e |-> e,
                  m |-> [i \in 1..Len(m) |->
                           IF i < k THEN m[i] ELSE IF i = k THEN 1 ELSE 0]]

\* Round to nearest, ties to even: ext is an exact binary expansion of at
\* least SignificandBits digits whose first digit is 1.  (The set binds the
\* expansion to its value, so that it is computed once.)
RoundBits(e, ext) ==
  CHOOSE r \in
    {LET guard == IF Len(x) > SignificandBits
                    THEN x[SignificandBits + 1] ELSE 0
         sticky == \E i \in (SignificandBits + 2)..Len(x) : x[i] = 1
         up == guard = 1 /\ (sticky \/ x[SignificandBits] = 1)
     IN  IF up THEN Increment(e, m) ELSE [e |-> e, m |-> m]
       : x \in {ext}, m \in {SubSeq(ext, 1, SignificandBits)}} : TRUE

\* The exponent of n / Scale (n > 0): the e with 2^e <= n / Scale < 2^(e+1).
RECURSIVE Exponent(_)
Exponent(n) ==
  IF n >= 2 * Scale THEN Exponent(n \div 2) + 1
  ELSE IF n < Scale THEN Exponent(2 * n) - 1
  ELSE 0

\* The double nearest to the decimal n / Scale (n >= 0), as the number
\* inputs parse it: the quotient is expanded nine digits at a time (q1..q6
\* after the leading 1, t1..t6 the remainders) and rounded.
ToDouble(n) ==
  IF n = 0 THEN DoubleZero
  ELSE LET e == Exponent(n)
           num == IF e >= 0 THEN n ELSE n * Pow2(-e)
           den == IF e >= 0 THEN Scale * Pow2(e) ELSE Scale
           t0 == num - den
           q1 == (t0 * 512) \div den
           t1 == (t0 * 512) % den
           q2 == (t1 * 512) \div den
           t2 == (t1 * 512) % den
           q3 == (t2 * 512) \div den
           t3 == (t2 * 512) % den
           q4 == (t3 * 512) \div den
           t4 == (t3 * 512) % den
           q5 == (t4 * 512) \div den
           t5 == (t4 * 512) % den
           q6 == (t5 * 512) \div den
           t6 == (t5 * 512) % den
       IN  RoundBits(e, <<1>> \o Digits9(q1) \o Digits9(q2) \o Digits9(q3)
                          \o Digits9(q4) \o Digits9(q5) \o Digits9(q6)
                          \o <<IF t6 = 0 THEN 0 ELSE 1>>)

\* The digits of a + b for two digit sequences of the same length, and the
\* carry out of the first digit.
AddBits(a, b) ==
  CHOOSE r \in
    {LET n == Len(u)
         c[i \in 1..(n + 1)] ==
           IF i = n + 1 THEN 0 ELSE (u[i] + v[i] + c[i + 1]) \div 2
     IN  [carry |-> c[1],
          bits |-> [i \in 1..n |-> (u[i] + v[i] + c[i + 1]) % 2]]
       : u \in {a}, v \in {b}} : TRUE

\* a + b of two doubles that are not negative: the exact sum, rounded.
DoubleAdd(a, b) ==
  IF a.m = <<>> THEN b
  ELSE IF b.m = <<>> THEN a
  ELSE CHOOSE r \in
         {LET d == hi.e - lo.e
              zeros == [i \in 1..d |-> 0]
          IN  CHOOSE s \in
                {IF sum.carry = 1
                   THEN RoundBits(hi.e + 1, <<1>> \o sum.bits)
                   ELSE RoundBits(hi.e, sum.bits)
                   : sum \in {AddBits(hi.m \o zeros, zeros \o lo.m)}} : TRUE
            : hi \in {IF a.e >= b.e THEN a ELSE b},
              lo \in {IF a.e >= b.e THEN b ELSE a}} : TRUE

\* a < b of two doubles that are not negative.
DoubleLt(a, b) ==
  IF b.m = <<>> THEN FALSE
  ELSE IF a.m = <<>> THEN TRUE
  ELSE IF a.e # b.e THEN a.e < b.e
  ELSE LET diff == {i \in 1..SignificandBits : a.m[i] # b.m[i]}
       IN  /\ diff # {}
           /\ LET k == CHOOSE i \in diff : \A j \in diff : i <= j
              IN  a.m[k] < b.m[k]

(* ------------------------------ strings -------------------------------- *)

Char(s, i) == SubSeq(s, i, i)

\* String.prototype.includes
Includes(s, sub) ==
  \E i \in 1..(Len(s) - Len(sub) + 1) : SubSeq(s, i, i + Len(sub) - 1) = sub

\* The index of the first non-blank character at or after i (\s*).
RECURSIVE SkipSpaces(_, _)
SkipSpaces(s, i) ==
  IF i <= Len(s) /\ Char(s, i) = " " THEN SkipSpaces(s, i + 1) ELSE i

\* /dy\/dx\s*=\s*/ matches at index i.
MarkerAt(s, i) ==
  /\ i + 4 <= Len(s)
  /\ SubSeq(s, i, i + 4) = "dy/dx"
  /\ LET j == SkipSpaces(s, i + 5) IN j <= Len(s) /\ Char(s, j) = "="

\* eqStr.replace(/dy\/dx\s*=\s*/, ''): the first match is removed.
StripMarker(s) ==
  IF \E i \in 1..Len(s) : MarkerAt(s, i)
  THEN LET i == CHOOSE k \in 1..Len(s) :
                  MarkerAt(s, k) /\ \A m \in 1..(k - 1) : ~MarkerAt(s, m)
           j == SkipSpaces(s, i + 5)
           e == SkipSpaces(s, j + 1)
       IN  SubSeq(s, 1, i - 1) \o SubSeq(s, e, Len(s))
  ELSE s

\* processedEq.replace(/\^/g, '**')
RECURSIVE ReplaceCaret(_)
ReplaceCaret(s) ==
  IF Len(s) = 0 THEN ""
  ELSE (IF Char(s, 1) = "^" THEN "**" ELSE Char(s, 1))
         \o ReplaceCaret(SubSeq(s, 2, Len(s)))

\* The expression text with its blanks removed (the evaluator ignores them).
RECURSIVE Squeeze(_)
Squeeze(s) ==
  IF Len(s) = 0 THEN ""
  ELSE (IF Char(s, 1) = " " THEN "" ELSE Char(s, 1))
         \o Squeeze(SubSeq(s, 2, Len(s)))

(* ------------------------- expression evaluator ------------------------ *)

\* The expressions of the presets (and 0), which mathjs evaluates.
ValidExprs == {"x+y", "x*y", "-x", "y*(1-y)", "-x/y", "y/x", "0"}

\* mathjs evaluate(expr, {x, y}) raises: the text is not an expression.
EvalThrows(expr) == Squeeze(expr) \notin ValidExprs

\* mathjs evaluate(expr, {x, y}) for an expression it accepts; e is the
\* expression without its blanks.
Evaluate(e, x, y) ==
  CASE e = "x+y" -> Add(x, y)
    [] e = "x*y" -> Mul(x, y)
    [] e = "-x" -> Neg(x)
    [] e = "y*(1-y)" -> Mul(y, Sub(Scale, y))
    [] e = "-x/y" -> Div(Neg(x), y)
    [] e = "y/x" -> Div(y, x)
    [] OTHER -> 0


(* ----------------- slope-field session: the numerical core ------------- *)

\* Math.abs(v) < 1e-10: below the resolution of the number model, only 0.
NearZero(v) == v = 0

\* parseEquation(eqStr) of the slope-field session.  The closure it returns
\* is the record of what the closure captures and tests on every call:
\* processedEq (text), processedEq.includes('/y') and includes('/x'), whether
\* evaluate raises on the text, and the expression evaluate reads from it.
VizParseEquation(eqStr) ==
  LET processedEq == ReplaceCaret(StripMarker(eqStr))
  IN  [text |-> processedEq,
       divY |-> Includes(processedEq, "/y"),
       divX |-> Includes(processedEq, "/x"),
       throws |-> EvalThrows(processedEq),
       expr |-> Squeeze(processedEq)]

\* Variant: a failed evaluation is mapped to slope 1.
VizSlopeSentinelOne(f, x, y) ==
  IF NearZero(y) /\ f.divY THEN 0
  ELSE IF NearZero(x) /\ f.divX THEN 0
  ELSE IF f.throws THEN Scale
  ELSE LET result == Evaluate(f.expr, x, y)
       IN  IF isFinite(result) THEN result ELSE 0

\* The closure parseEquation returns, applied to (x, y).
VizSlope(f, x, y) ==
  IF NearZero(y) /\ f.divY THEN 0
  ELSE IF NearZero(x) /\ f.divX THEN 0
  ELSE IF f.throws THEN 0
  ELSE LET result == Evaluate(f.expr, x, y)
       IN  IF isFinite(result) THEN result ELSE 0

\* const maxSteps = 200
maxSteps == 200

\* 0.05, the magnitude of h in generateSolutionCurve.
CurveH == Scale \div 20

\* Variants of the loop's test: one forgets y, one counts the edge as outside.
OutOfRangeXOnly(x, y, xr, yr) == Lt(x, xr[1]) \/ Gt(x, xr[2])
OutOfRangeInclusive(x, y, xr, yr) ==
  ~Gt(x, xr[1]) \/ ~Lt(x, xr[2]) \/ ~Gt(y, yr[1]) \/ ~Lt(y, yr[2])

\* The loop's test that (x, y) has left the rectangle.
OutOfRange(x, y, xr, yr) ==
  Lt(x, xr[1]) \/ Gt(x, xr[2]) \/ Lt(y, yr[1]) \/ Gt(y, yr[2])

\* One pass of the for loop's body on the loop state st = [x, y, points, done];
\* done records that a break was taken.
CurveStep(f, h, xr, yr, st) ==
  IF st.done THEN st
  ELSE IF OutOfRange(st.x, st.y, xr, yr) THEN [st EXCEPT !.done = TRUE]
  ELSE
    LET x == st.x
        y == st.y
        k1 == Mul(h, VizSlope(f, x, y))
        k2 == Mul(h, VizSlope(f, Add(x, DivInt(h, 2)), Add(y, DivInt(k1, 2))))
        k3 == Mul(h, VizSlope(f, Add(x, DivInt(h, 2)), Add(y, DivInt(k2, 2))))
        k4 == Mul(h, VizSlope(f, Add(x, h), Add(y, k3)))
    IN  IF ~isFinite(k1) \/ ~isFinite(k2) \/ ~isFinite(k3) \/ ~isFinite(k4)
        THEN [st EXCEPT !.done = TRUE]
        ELSE
          LET y2 == Add(y, DivInt(Add(Add(Add(k1, MulInt(2, k2)),
                                          MulInt(2, k3)), k4), 6))
              x2 == Add(x, h)
          IN  IF ~isFinite(x2) \/ ~isFinite(y2)
              THEN [st EXCEPT !.done = TRUE]
              ELSE [x |-> x2, y |-> y2, done |-> FALSE,
                    points |-> Append(st.points, <<x2, y2>>)]

\* n passes of the loop body (for (let i = 0; i < n; i++)), split in halves
\* so that the evaluation stays shallow.
RECURSIVE CurveLoop(_, _, _, _, _, _)
CurveLoop(f, h, xr, yr, st, n) ==
  IF n = 0 THEN st
  ELSE IF n = 1 THEN CurveStep(f, h, xr, yr, st)
  ELSE LET half == CurveLoop(f, h, xr, yr, st, n \div 2)
       IN  IF half.done THEN half
           ELSE CurveLoop(f, h, xr, yr, half, n - n \div 2)

\* Variant of generateSolutionCurve: the loop runs while i <= maxSteps.
generateSolutionCurveOneMore(f, x0, y0, direction, xr, yr) ==
  CurveLoop(f, CurveH * direction, xr, yr,
            [x |-> x0, y |-> y0, done |-> FALSE, points |-> <<<<x0, y0>>>>],
            maxSteps + 1).points

\* generateSolutionCurve(f, x0, y0, direction), reading xRange and yRange.
generateSolutionCurve(f, x0, y0, direction, xr, yr) ==
  CurveLoop(f, CurveH * direction, xr, yr,
            [x |-> x0, y |-> y0, done |-> FALSE, points |-> <<<<x0, y0>>>>],
            maxSteps).points

\* Array.prototype.reverse
Reverse(s) == [i \in 1..Len(s) |-> s[Len(s) + 1 - i]]

\* Variants of the splice: forward run first; seed duplicate kept.
SpliceForwardFirst(backwardPoints, forwardPoints) ==
  forwardPoints \o Tail(backwardPoints)
SpliceKeepSeed(backwardPoints, forwardPoints) ==
  Reverse(backwardPoints) \o forwardPoints

\* Variant: the backward run is not reversed.
SpliceUnreversed(backwardPoints, forwardPoints) ==
  SubSeq(backwardPoints, 1, Len(backwardPoints) - 1) \o forwardPoints

\* [...backwardPoints.reverse().slice(0, -1), ...forwardPoints]
Splice(backwardPoints, forwardPoints) ==
  SubSeq(Reverse(backwardPoints), 1, Len(backwardPoints) - 1) \o forwardPoints

\* const colors = [...]
colors == <<"#e74c3c", "#2ecc71", "#f39c12", "#9b59b6", "#1abc9c", "#f1c40f">>

\* Variant: the loop runs while v < hi.
RECURSIVE GridAxisStrict(_, _, _)
GridAxisStrict(v, hi, step) ==
  IF Lt(v, hi) THEN <<v>> \o GridAxisStrict(Add(v, step), hi, step) ELSE <<>>

\* for (let v = lo; v <= hi; v += step): the values v takes, in order.
RECURSIVE GridAxis(_, _, _)
GridAxis(v, hi, step) ==
  IF Le(v, hi) THEN <<v>> \o GridAxis(Add(v, step), hi, step) ELSE <<>>

\* The two loops of drawSlopeField over the values xs and ys of x and y: the
\* (x, y, slope) of every arrow drawn, in the order of the loops; a
\* non-finite slope is skipped (continue).
SampleGrid(f, xs, ys) ==
  LET visited ==
        [k \in 1..(Len(xs) * Len(ys)) |->
           LET x == xs[((k - 1) \div Len(ys)) + 1]
               y == ys[((k - 1) % Len(ys)) + 1]
           IN  <<x, y, VizSlope(f, x, y)>>]
  IN  SelectSeq(visited, LAMBDA t : isFinite(t[3]))

\* The slope field drawSlopeField draws from the equation, the bounds and
\* the grid density.
FieldSamples(eq, xr, yr, n) ==
  SampleGrid(VizParseEquation(eq),
             GridAxis(xr[1], xr[2], DivInt(Sub(xr[2], xr[1]), n)),
             GridAxis(yr[1], yr[2], DivInt(Sub(yr[2], yr[1]), n)))

(* -------------------- solver session: the numerical core --------------- *)

\* parseEquation(eqStr) of the solver: the closure it returns, as the record
\* of the text it captures, whether evaluate raises on it, and the expression
\* evaluate reads from it.  The closure has no guard and no catch.
SolverParseEquation(eqStr) ==
  LET processedEq == ReplaceCaret(StripMarker(eqStr))
  IN  [text |-> processedEq,
       throws |-> EvalThrows(processedEq),
       expr |-> Squeeze(processedEq)]

\* The closure the solver's parseEquation returns, applied to (x, y): it
\* returns what evaluate returns, and raises when evaluate raises.
SolverSlope(f, x, y) ==
  IF f.throws THEN [raised |-> TRUE, value |-> NaN]
  ELSE [raised |-> FALSE, value |-> Evaluate(f.expr, x, y)]

\* The statements of the while body of rungeKutta4, for a call of f that
\* does not raise: the four stages, then the new y and the new x.
StageK1(f, h, x, y) == Mul(h, SolverSlope(f, x, y).value)
StageK2(f, h, x, y, k1) ==
  Mul(h, SolverSlope(f, Add(x, DivInt(h, 2)), Add(y, DivInt(k1, 2))).value)
StageK3(f, h, x, y, k2) ==
  Mul(h, SolverSlope(f, Add(x, DivInt(h, 2)), Add(y, DivInt(k2, 2))).value)
StageK4(f, h, x, y, k3) ==
  Mul(h, SolverSlope(f, Add(x, h), Add(y, k3)).value)
\* Variant: the new y is taken from the first stage alone (Euler's step).
StepYEuler(y, k1, k2, k3, k4) == Add(y, k1)

StepY(y, k1, k2, k3, k4) ==
  Add(y, DivInt(Add(Add(Add(k1, MulInt(2, k2)), MulInt(2, k3)), k4), 6))
\* Variant: x advances by half a step.
StepXHalf(x, h) == Add(x, DivInt(h, 2))

StepX(x, h) == Add(x, h)

\* points.push([x, y]).  The model keeps the first MaxSolverPoints points of
\* a run; no run that ends is longer.
MaxSolverPoints == 22
Push(points, x, y) ==
  IF Len(points) < MaxSolverPoints THEN Append(points, <<x, y>>) ELSE points

\* Variant: the test without the trim.
IsBlankNoTrim(s) == s = ""

\* !equation.value.trim()
IsBlank(s) == \A i \in 1..Len(s) : Char(s, i) = " "

\* const presetEquations = [...] of the solver.
solverPresets ==
  <<[eq |-> "dy/dx = x + y", x0 |-> 0, y0 |-> Scale],
    [eq |-> "dy/dx = x*y", x0 |-> 0, y0 |-> Scale],
    [eq |-> "dy/dx = y/x", x0 |-> Scale, y0 |-> Scale],
    [eq |-> "dy/dx = y*(1-y)", x0 |-> 0, y0 |-> Scale \div 10]>>

\* const presetEquations = [...] of the slope-field session (the eq fields).
presetEquations ==
  <<"dy/dx = x + y", "dy/dx = x*y", "dy/dx = -x", "dy/dx = y*(1-y)",
    "dy/dx = -x/y", "dy/dx = y/x">>

(* ------------------------------- bounds -------------------------------- *)

\* Session specification: curves ever created, and the one click position.
MaxIds == 7
SessionSeeds == {<<-4 * Scale, -3 * Scale>>}
SessionPresets == {1, 4}

\* Geometry specification: curves ever created, click positions (inside, on
\* an edge, outside the default rectangle), typed equations, typed bounds.
MaxGeoAdds == 1
GeoSeeds ==
  {<<0, 600>>, <<4 * Scale, 600>>, <<0, 3 * Scale>>, <<4 * Scale, 3 * Scale>>,
   <<5 * Scale, 0>>}
GeoPresets == {1, 4, 5}
TypedEquations == {"dy/dx = x +"}
XMinChoices == {-4 * Scale}
XMaxChoices == {4 * Scale, 12 * Scale}

\* Bounds specification: curves ever created, and the typed y bounds.
MaxBoundsAdds == 2
YMinChoices == {-3 * Scale, -6 * Scale}
YMaxChoices == {3 * Scale}

\* Field specification: typed equations (a quotient with and without the
\* textual division marker, a malformed one) and positions of the slider.
FieldEquations == {"dy/dx = y/x", "dy/dx = y/ x", "dy/dx = x +"}
FieldPresets == {3, 5}
DensityChoices == {10, 11, 16, 20}

\* Solver specification: typed equations and typed numbers.
SolverEquations == {"dy/dx = -x", "dy/dx = x +", " ", ""}
SolverPresetChoices == {1, 3}
X0Choices == {0, Scale}
XEndChoices == {0, Scale}
HChoices == {0, Scale \div 10, Scale \div 4}
MaxRedrawAdds == 1
RedrawPresets == {4}
RedrawDensities == {20, 40}
ArrowChoices == {8, 15}
MaxAppendAdds == 2
AppendSeeds == {<<0, 600>>, <<5 * Scale, 0>>, <<0, -4 * Scale>>}

(* -------------------------------- state -------------------------------- *)

VARIABLES
  equation,         \* equation.value
  xRange,           \* xRange.value, <<xMin, xMax>>
  yRange,           \* yRange.value, <<yMin, yMax>>
  solutionCurves,   \* solutionCurves.value: sequence of [id, points, color]
  curveIdCounter,   \* let curveIdCounter
  pendingTicks,     \* nextTick(drawSlopeField) callbacks queued, not yet run
  drawnField,       \* what the slope field on the SVG was drawn from
  drawnCurves,      \* what the curve paths on the SVG were drawn from
  gridDensity,      \* gridDensity.value
  showGrid,         \* showGrid.value
  arrowLength,      \* arrowLength.value
  lastRun,          \* history: the inputs and the two runs of the last add
  createdIds        \* history: the ids given to curves, in creation order

vizVars ==
  <<equation, xRange, yRange, solutionCurves, curveIdCounter, pendingTicks,
    drawnField, drawnCurves, gridDensity, showGrid, arrowLength, lastRun,
    createdIds>>

VARIABLES
  solverEquation,   \* equation.value of the solver
  initialX,         \* initialX.value
  initialY,         \* initialY.value
  xEnd,             \* xEnd.value
  stepSize,         \* stepSize.value
  solution,         \* solution.value
  solutionSteps,    \* solutionSteps.value
  isLoading,        \* isLoading.value
  pc,               \* where solveEquation is: "idle", "test" (the while
                    \* condition is next), "k1".."k4", "update" (that
                    \* statement of the loop body is next)
  call              \* the running call's locals: f, h, xEnd, x, y, points
                    \* and k1..k4 (0 outside the body); xd, hd and xEndd
                    \* are x, h and xEnd as doubles

solverVars ==
  <<solverEquation, initialX, initialY, xEnd, stepSize, solution,
    solutionSteps, isLoading, pc, call>>

vars == <<vizVars, solverVars>>

\* The refs as initialised, after onMounted has queued its first redraw.
VizInit ==
  /\ equation = "dy/dx = x + y"
  /\ xRange = <<-4 * Scale, 4 * Scale>>
  /\ yRange = <<-3 * Scale, 3 * Scale>>
  /\ gridDensity = 20
  /\ showGrid = TRUE
  /\ arrowLength = 15
  /\ solutionCurves = <<>>
  /\ curveIdCounter = 0
  /\ pendingTicks = 1
  /\ drawnField = <<>>
  /\ drawnCurves = <<>>
  /\ lastRun = <<>>
  /\ createdIds = <<>>

\* The solver's refs as initialised.
SolverInit ==
  /\ solverEquation = "dy/dx = x + y"
  /\ initialX = 0
  /\ initialY = Scale
  /\ xEnd = 2 * Scale
  /\ stepSize = Scale \div 10
  /\ solution = <<>>
  /\ solutionSteps = <<>>
  /\ isLoading = FALSE
  /\ pc = "idle"
  /\ call = <<>>

(* ------------------------ slope-field operations ----------------------- *)

\* What drawSolutionCurves puts on the SVG for the collection cs.
CurvesDrawing(cs, xr, yr) == [curves |-> cs, xRange |-> xr, yRange |-> yr]

\* What drawSlopeField draws the field from.
FieldDrawing(eq, xr, yr) ==
  [equation |-> eq, xRange |-> xr, yRange |-> yr, gridDensity |-> gridDensity,
   showGrid |-> showGrid, arrowLength |-> arrowLength]

\* Variant: the colour is counted from the collection after the add.
CurveColorAfter(cs) == colors[((Len(cs) + 1) % Len(colors)) + 1]

\* colors[solutionCurves.value.length % colors.length]
CurveColor(cs) == colors[(Len(cs) % Len(colors)) + 1]

\* Variant: the counter is read but not advanced.
PostIncrementCounterStuck(n) == n

\* curveIdCounter++ : the value the expression yields, and the counter after.
PostIncrementValue(n) == n
PostIncrementCounter(n) == n + 1

\* Variant: the new curve is put in front of the collection.
PushCurveFront(cs, curve) == <<curve>> \o cs

\* solutionCurves.value.push({...})
PushCurve(cs, curve) == Append(cs, curve)

\* addSolutionCurve(x0, y0): a click at data coordinates (x0, y0).
addSolutionCurve(x0, y0) ==
  /\ pendingTicks = 0
  /\ LET f == VizParseEquation(equation)
         forwardPoints == generateSolutionCurve(f, x0, y0, 1, xRange, yRange)
         backwardPoints == generateSolutionCurve(f, x0, y0, -1, xRange, yRange)
         allPoints == Splice(backwardPoints, forwardPoints)
         color == CurveColor(solutionCurves)
     IN  /\ solutionCurves' =
              PushCurve(solutionCurves,
                        [id |-> PostIncrementValue(curveIdCounter),
                         points |-> allPoints, color |-> color])
         /\ lastRun' = [id |-> PostIncrementValue(curveIdCounter),
                        equation |-> equation,
                        x0 |-> x0, y0 |-> y0, xRange |-> xRange,
                        yRange |-> yRange, forward |-> forwardPoints,
                        backward |-> backwardPoints]
         /\ createdIds' = Append(createdIds, PostIncrementValue(curveIdCounter))
  /\ curveIdCounter' = PostIncrementCounter(curveIdCounter)
  /\ drawnCurves' = CurvesDrawing(solutionCurves', xRange, yRange)
  /\ UNCHANGED <<equation, xRange, yRange, pendingTicks, drawnField>>
  /\ UNCHANGED <<gridDensity, showGrid, arrowLength>>

\* clearSolutionCurves(): empties the collection and redraws at once.
clearSolutionCurves ==
  /\ pendingTicks = 0
  /\ solutionCurves' = <<>>
  /\ drawnField' = FieldDrawing(equation, xRange, yRange)
  /\ drawnCurves' = CurvesDrawing(<<>>, xRange, yRange)
  /\ UNCHANGED <<equation, xRange, yRange, curveIdCounter, pendingTicks, lastRun,
                 createdIds>>
  /\ UNCHANGED <<gridDensity, showGrid, arrowLength>>

\* loadPreset(preset): sets the equation, clears the curves (redrawing at
\* once), queues a redraw; the watcher queues another when the text changed.
loadPreset(i) ==
  /\ pendingTicks = 0
  /\ equation' = presetEquations[i]
  /\ solutionCurves' = <<>>
  /\ drawnField' = FieldDrawing(equation', xRange, yRange)
  /\ drawnCurves' = CurvesDrawing(<<>>, xRange, yRange)
  /\ pendingTicks' = IF equation' # equation THEN 2 ELSE 1
  /\ UNCHANGED <<xRange, yRange, curveIdCounter, lastRun, createdIds>>
  /\ UNCHANGED <<gridDensity, showGrid, arrowLength>>

\* Variant: splice(findIndex(...), 1), which drops the last curve when the
\* id is not found (findIndex yields -1).
FilterOutSplice(cs, curveId) ==
  IF \E i \in 1..Len(cs) : cs[i].id = curveId
    THEN SelectSeq(cs, LAMBDA curve : curve.id # curveId)
    ELSE SubSeq(cs, 1, Len(cs) - 1)

\* Variant: the curves created after the removed one go with it.
FilterOutFrom(cs, curveId) == SelectSeq(cs, LAMBDA curve : curve.id < curveId)

\* solutionCurves.value.filter(curve => curve.id !== curveId)
FilterOut(cs, curveId) == SelectSeq(cs, LAMBDA curve : curve.id # curveId)

\* removeCurve(curveId): filters the collection and redraws at once.
removeCurve(curveId) ==
  /\ pendingTicks = 0
  /\ solutionCurves' = FilterOut(solutionCurves, curveId)
  /\ drawnField' = FieldDrawing(equation, xRange, yRange)
  /\ drawnCurves' = CurvesDrawing(solutionCurves', xRange, yRange)
  /\ UNCHANGED <<equation, xRange, yRange, curveIdCounter, pendingTicks, lastRun,
                 createdIds>>
  /\ UNCHANGED <<gridDensity, showGrid, arrowLength>>

\* Variant: typing a new equation also empties the collection.
setEquationClearing(eq) ==
  /\ pendingTicks = 0
  /\ eq # equation
  /\ equation' = eq
  /\ solutionCurves' = <<>>
  /\ pendingTicks' = 1
  /\ UNCHANGED <<xRange, yRange, curveIdCounter, drawnField, drawnCurves,
                 lastRun, createdIds>>
  /\ UNCHANGED <<gridDensity, showGrid, arrowLength>>

\* The equation input (v-model="equation"): the watcher queues a redraw.
setEquation(eq) ==
  /\ pendingTicks = 0
  /\ eq # equation
  /\ equation' = eq
  /\ pendingTicks' = 1
  /\ UNCHANGED <<xRange, yRange, solutionCurves, curveIdCounter, drawnField,
                 drawnCurves, lastRun, createdIds>>
  /\ UNCHANGED <<gridDensity, showGrid, arrowLength>>

\* Variant: a change of the x bounds clips the stored curves to the new bounds.
setXRangeReclip(lo, hi) ==
  /\ pendingTicks = 0
  /\ <<lo, hi>> # xRange
  /\ xRange' = <<lo, hi>>
  /\ solutionCurves' =
       [i \in 1..Len(solutionCurves) |->
          [solutionCurves[i] EXCEPT
             !.points = SelectSeq(@, LAMBDA p : p[1] >= lo /\ p[1] <= hi)]]
  /\ pendingTicks' = 1
  /\ UNCHANGED <<equation, yRange, curveIdCounter, drawnField, drawnCurves,
                 lastRun, createdIds>>
  /\ UNCHANGED <<gridDensity, showGrid, arrowLength>>

\* The bound inputs (v-model.number="xRange[0]", "xRange[1]"): the deep
\* watcher queues a redraw.
setXRange(lo, hi) ==
  /\ pendingTicks = 0
  /\ <<lo, hi>> # xRange
  /\ xRange' = <<lo, hi>>
  /\ pendingTicks' = 1
  /\ UNCHANGED <<equation, yRange, solutionCurves, curveIdCounter, drawnField,
                 drawnCurves, lastRun, createdIds>>
  /\ UNCHANGED <<gridDensity, showGrid, arrowLength>>

\* The bound inputs (v-model.number="yRange[0]", "yRange[1]"): the deep
\* watcher queues a redraw.
setYRange(lo, hi) ==
  /\ pendingTicks = 0
  /\ <<lo, hi>> # yRange
  /\ yRange' = <<lo, hi>>
  /\ pendingTicks' = 1
  /\ UNCHANGED <<equation, xRange, solutionCurves, curveIdCounter, drawnField,
                 drawnCurves, lastRun, createdIds>>
  /\ UNCHANGED <<gridDensity, showGrid, arrowLength>>

\* The density slider (v-model.number="gridDensity"): the watcher queues a
\* redraw.
setGridDensity(n) ==
  /\ pendingTicks = 0
  /\ n # gridDensity
  /\ gridDensity' = n
  /\ pendingTicks' = 1
  /\ UNCHANGED <<equation, xRange, yRange, solutionCurves, curveIdCounter,
                 drawnField, drawnCurves, lastRun, createdIds>>
  /\ UNCHANGED <<showGrid, arrowLength>>

\* Variant: showGrid is not among the watched refs.
setShowGridUnwatched ==
  /\ pendingTicks = 0
  /\ showGrid' = ~showGrid
  /\ UNCHANGED <<equation, xRange, yRange, solutionCurves, curveIdCounter,
                 pendingTicks, drawnField, drawnCurves, lastRun, createdIds>>
  /\ UNCHANGED <<gridDensity, arrowLength>>

\* The grid checkbox (v-model="showGrid"): the watcher queues a redraw.
setShowGrid ==
  /\ pendingTicks = 0
  /\ showGrid' = ~showGrid
  /\ pendingTicks' = 1
  /\ UNCHANGED <<equation, xRange, yRange, solutionCurves, curveIdCounter,
                 drawnField, drawnCurves, lastRun, createdIds>>
  /\ UNCHANGED <<gridDensity, arrowLength>>

\* The arrow-length slider (v-model.number="arrowLength"): the watcher queues
\* a redraw.
setArrowLength(n) ==
  /\ pendingTicks = 0
  /\ n # arrowLength
  /\ arrowLength' = n
  /\ pendingTicks' = 1
  /\ UNCHANGED <<equation, xRange, yRange, solutionCurves, curveIdCounter,
                 drawnField, drawnCurves, lastRun, createdIds>>
  /\ UNCHANGED <<gridDensity, showGrid>>

\* A queued nextTick callback runs: drawSlopeField() draws the field and the
\* curves from the values current now.
runTick ==
  /\ pendingTicks > 0
  /\ pendingTicks' = pendingTicks - 1
  /\ drawnField' = FieldDrawing(equation, xRange, yRange)
  /\ drawnCurves' = CurvesDrawing(solutionCurves, xRange, yRange)
  /\ UNCHANGED <<equation, xRange, yRange, solutionCurves, curveIdCounter,
                 lastRun, createdIds>>
  /\ UNCHANGED <<gridDensity, showGrid, arrowLength>>

(* --------------------------- solver operations ------------------------- *)

\* Variant: the third entry shows the default step size, not the one used.
FirstStepsDefaultH(eq, x0, y0, h, xe) ==
  <<[step |-> "1", description |-> "parse the equation",
     result |-> <<"equation", eq>>],
    [step |-> "2", description |-> "set the initial condition",
     result |-> <<"initial", x0, y0>>],
    [step |-> "3", description |-> "solve with RK4",
     result |-> <<"method", Scale \div 10, x0, xe>>]>>

\* The three entries solveEquation writes before it integrates.  A result
\* text is kept as the values its template interpolates.
FirstSteps(eq, x0, y0, h, xe) ==
  <<[step |-> "1", description |-> "parse the equation",
     result |-> <<"equation", eq>>],
    [step |-> "2", description |-> "set the initial condition",
     result |-> <<"initial", x0, y0>>],
    [step |-> "3", description |-> "solve with RK4",
     result |-> <<"method", h, x0, xe>>]>>

\* The entry pushed after the integration.
CountStep(points) ==
  [step |-> "4", description |-> "numerical solution done",
   result |-> <<"count", Len(points)>>]

\* The single entry the catch block leaves.
ErrorStep(message) ==
  [step |-> "error", description |-> "solve failed", result |-> <<message>>]

\* solveEquation(), up to the first test of the while condition: the empty
\* check, isLoading, the first three entries, parseEquation, and the locals
\* of rungeKutta4.  With a blank equation the call returns at once.
solveBegin ==
  /\ pc = "idle"
  /\ IF IsBlank(solverEquation)
     THEN UNCHANGED <<isLoading, solutionSteps, pc, call>>
     ELSE /\ isLoading' = TRUE
          /\ solutionSteps' =
               FirstSteps(solverEquation, initialX, initialY, stepSize, xEnd)
          /\ \E xd \in {ToDouble(initialX)}, hd \in {ToDouble(stepSize)},
                xEndd \in {ToDouble(xEnd)} :
               call' = [f |-> SolverParseEquation(solverEquation),
                        h |-> stepSize, xEnd |-> xEnd,
                        x |-> initialX, y |-> initialY,
                        xd |-> xd, hd |-> hd, xEndd |-> xEndd,
                        points |-> <<<<initialX, initialY>>>>,
                        k1 |-> 0, k2 |-> 0, k3 |-> 0, k4 |-> 0]
          /\ pc' = "test"
  /\ UNCHANGED <<solverEquation, initialX, initialY, xEnd, stepSize, solution>>

\* x < xEnd, on the doubles.
WhileCondition == DoubleLt(call.xd, call.xEndd)

\* while (x < xEnd): enter the body, or return the points; solveEquation
\* then stores them, pushes the fourth entry and clears isLoading.
loopTest ==
  /\ pc = "test"
  /\ IF WhileCondition
     THEN /\ pc' = "k1"
          /\ UNCHANGED <<solution, solutionSteps, isLoading, call>>
     ELSE /\ solution' = call.points
          /\ solutionSteps' = Append(solutionSteps, CountStep(call.points))
          /\ isLoading' = FALSE
          /\ pc' = "idle"
          /\ call' = <<>>
  /\ UNCHANGED <<solverEquation, initialX, initialY, xEnd, stepSize>>

\* const k1 = h * f(x, y): the first call of the closure.  When evaluate
\* raises, the catch block of solveEquation replaces the entries and the
\* finally block clears isLoading.
stageK1 ==
  /\ pc = "k1"
  /\ IF SolverSlope(call.f, call.x, call.y).raised
     THEN /\ solutionSteps' = <<ErrorStep("evaluate: syntax error")>>
          /\ isLoading' = FALSE
          /\ pc' = "idle"
          /\ call' = <<>>
     ELSE /\ call' = [call EXCEPT !.k1 = StageK1(call.f, call.h, call.x, call.y)]
          /\ pc' = "k2"
          /\ UNCHANGED <<solutionSteps, isLoading>>
  /\ UNCHANGED <<solverEquation, initialX, initialY, xEnd, stepSize, solution>>

\* const k2, k3, k4: the closure did not raise on the first call and does not
\* raise on these.
stageK2 ==
  /\ pc = "k2"
  /\ call' = [call EXCEPT
                !.k2 = StageK2(call.f, call.h, call.x, call.y, call.k1)]
  /\ pc' = "k3"
  /\ UNCHANGED <<solverEquation, initialX, initialY, xEnd, stepSize, solution,
                 solutionSteps, isLoading>>

stageK3 ==
  /\ pc = "k3"
  /\ call' = [call EXCEPT
                !.k3 = StageK3(call.f, call.h, call.x, call.y, call.k2)]
  /\ pc' = "k4"
  /\ UNCHANGED <<solverEquation, initialX, initialY, xEnd, stepSize, solution,
                 solutionSteps, isLoading>>

stageK4 ==
  /\ pc = "k4"
  /\ call' = [call EXCEPT
                !.k4 = StageK4(call.f, call.h, call.x, call.y, call.k3)]
  /\ pc' = "update"
  /\ UNCHANGED <<solverEquation, initialX, initialY, xEnd, stepSize, solution,
                 solutionSteps, isLoading>>

\* y = y + (k1 + 2*k2 + 2*k3 + k4) / 6; x = x + h; points.push([x, y])
loopUpdate ==
  /\ pc = "update"
  /\ LET y2 == StepY(call.y, call.k1, call.k2, call.k3, call.k4)
         x2 == StepX(call.x, call.h)
     IN  \E xd2 \in {DoubleAdd(call.xd, call.hd)} :
           call' = [call EXCEPT !.x = x2, !.y = y2, !.xd = xd2,
                                !.points = Push(call.points, x2, y2),
                                !.k1 = 0, !.k2 = 0, !.k3 = 0, !.k4 = 0]
  /\ pc' = "test"
  /\ UNCHANGED <<solverEquation, initialX, initialY, xEnd, stepSize, solution,
                 solutionSteps, isLoading>>

\* The equation input of the solver.
setSolverEquation(eq) ==
  /\ pc = "idle"
  /\ solverEquation' = eq
  /\ UNCHANGED <<initialX, initialY, xEnd, stepSize, solution, solutionSteps,
                 isLoading, pc, call>>

\* loadPreset(preset) of the solver.
loadSolverPreset(i) ==
  /\ pc = "idle"
  /\ solverEquation' = solverPresets[i].eq
  /\ initialX' = solverPresets[i].x0
  /\ initialY' = solverPresets[i].y0
  /\ UNCHANGED <<xEnd, stepSize, solution, solutionSteps, isLoading, pc, call>>

\* The number inputs x0, end point and step size.
setParameters(x0, xe, h) ==
  /\ pc = "idle"
  /\ initialX' = x0
  /\ xEnd' = xe
  /\ stepSize' = h
  /\ UNCHANGED <<solverEquation, initialY, solution, solutionSteps, isLoading,
                 pc, call>>

(* ---------------------------- specifications --------------------------- *)

Init == VizInit /\ SolverInit

\* Session: clicks, removals (of any id, live or not), clear, preset loads.
SessionClick ==
  /\ curveIdCounter < MaxIds
  /\ \E seed \in SessionSeeds : addSolutionCurve(seed[1], seed[2])
  /\ UNCHANGED solverVars
SessionRemove ==
  (\E curveId \in 0..MaxIds : removeCurve(curveId)) /\ UNCHANGED solverVars
SessionClear == clearSolutionCurves /\ UNCHANGED solverVars
SessionPreset ==
  (\E i \in SessionPresets : loadPreset(i)) /\ UNCHANGED solverVars
Tick == runTick /\ UNCHANGED solverVars

Next ==
  \/ SessionClick
  \/ SessionRemove
  \/ SessionClear
  \/ SessionPreset
  \/ Tick

Spec == Init /\ [][Next]_vars

\* Geometry: one click anywhere, under any typed equation and bounds.
GeoClick ==
  /\ curveIdCounter < MaxGeoAdds
  /\ \E seed \in GeoSeeds : addSolutionCurve(seed[1], seed[2])
  /\ UNCHANGED solverVars
GeoRemove ==
  (\E curveId \in 0..MaxGeoAdds : removeCurve(curveId)) /\ UNCHANGED solverVars
GeoClear == clearSolutionCurves /\ UNCHANGED solverVars
GeoPreset == (\E i \in GeoPresets : loadPreset(i)) /\ UNCHANGED solverVars
GeoType == (\E eq \in TypedEquations : setEquation(eq)) /\ UNCHANGED solverVars
GeoBounds ==
  /\ \E lo \in XMinChoices, hi \in XMaxChoices : setXRange(lo, hi)
  /\ UNCHANGED solverVars
GeoTick == runTick /\ UNCHANGED solverVars

GeoNext ==
  \/ GeoClick
  \/ GeoRemove
  \/ GeoClear
  \/ GeoPreset
  \/ GeoType
  \/ GeoBounds
  \/ GeoTick

GeoSpec == Init /\ [][GeoNext]_vars

\* Bounds: clicks, then changes of the x and y bounds, removals, redraws.
BoundsClick ==
  /\ curveIdCounter < MaxBoundsAdds
  /\ \E seed \in SessionSeeds : addSolutionCurve(seed[1], seed[2])
  /\ UNCHANGED solverVars
BoundsRemove ==
  /\ \E curveId \in 0..MaxBoundsAdds : removeCurve(curveId)
  /\ UNCHANGED solverVars
BoundsX ==
  /\ \E lo \in XMinChoices, hi \in XMaxChoices : setXRange(lo, hi)
  /\ UNCHANGED solverVars
BoundsY ==
  /\ \E lo \in YMinChoices, hi \in YMaxChoices : setYRange(lo, hi)
  /\ UNCHANGED solverVars
BoundsTick == runTick /\ UNCHANGED solverVars

BoundsNext ==
  \/ BoundsClick
  \/ BoundsRemove
  \/ BoundsX
  \/ BoundsY
  \/ BoundsTick

BoundsSpec == Init /\ [][BoundsNext]_vars

\* Field: typed equations, preset loads, the density slider, redraws.
FieldType == (\E eq \in FieldEquations : setEquation(eq)) /\ UNCHANGED solverVars
FieldDensity ==
  (\E n \in DensityChoices : setGridDensity(n)) /\ UNCHANGED solverVars
FieldPreset == (\E i \in FieldPresets : loadPreset(i)) /\ UNCHANGED solverVars
FieldTick == runTick /\ UNCHANGED solverVars

FieldNext ==
  \/ FieldType
  \/ FieldDensity
  \/ FieldPreset
  \/ FieldTick

FieldSpec == Init /\ [][FieldNext]_vars

\* Redraws: every watched input changes, with clicks, removals and clears.
RedrawClick ==
  /\ curveIdCounter < MaxRedrawAdds
  /\ \E seed \in SessionSeeds : addSolutionCurve(seed[1], seed[2])
  /\ UNCHANGED solverVars
RedrawRemove ==
  /\ \E curveId \in 0..MaxRedrawAdds : removeCurve(curveId)
  /\ UNCHANGED solverVars
RedrawClear == clearSolutionCurves /\ UNCHANGED solverVars
RedrawPreset == (\E i \in RedrawPresets : loadPreset(i)) /\ UNCHANGED solverVars
RedrawType ==
  (\E eq \in TypedEquations : setEquation(eq)) /\ UNCHANGED solverVars
RedrawX ==
  /\ \E lo \in XMinChoices, hi \in XMaxChoices : setXRange(lo, hi)
  /\ UNCHANGED solverVars
RedrawY ==
  /\ \E lo \in YMinChoices, hi \in YMaxChoices : setYRange(lo, hi)
  /\ UNCHANGED solverVars
RedrawDensity ==
  (\E n \in RedrawDensities : setGridDensity(n)) /\ UNCHANGED solverVars
RedrawGrid == setShowGrid /\ UNCHANGED solverVars
RedrawArrow ==
  (\E n \in ArrowChoices : setArrowLength(n)) /\ UNCHANGED solverVars
RedrawTick == runTick /\ UNCHANGED solverVars

RedrawNext ==
  \/ RedrawClick
  \/ RedrawRemove
  \/ RedrawClear
  \/ RedrawPreset
  \/ RedrawType
  \/ RedrawX
  \/ RedrawY
  \/ RedrawDensity
  \/ RedrawGrid
  \/ RedrawArrow
  \/ RedrawTick

RedrawSpec == Init /\ [][RedrawNext]_vars

\* Appends: clicks inside and outside the rectangle, under typed equations.
AppendClick ==
  /\ curveIdCounter < MaxAppendAdds
  /\ \E seed \in AppendSeeds : addSolutionCurve(seed[1], seed[2])
  /\ UNCHANGED solverVars
AppendRemove ==
  /\ \E curveId \in 0..MaxAppendAdds : removeCurve(curveId)
  /\ UNCHANGED solverVars
AppendType ==
  (\E eq \in FieldEquations : setEquation(eq)) /\ UNCHANGED solverVars
AppendTick == runTick /\ UNCHANGED solverVars

AppendNext ==
  \/ AppendClick
  \/ AppendRemove
  \/ AppendType
  \/ AppendTick

AppendSpec == Init /\ [][AppendNext]_vars

\* Solver: typed equations and numbers, preset loads, solves.
SolverType ==
  (\E eq \in SolverEquations : setSolverEquation(eq)) /\ UNCHANGED vizVars
SolverPreset ==
  (\E i \in SolverPresetChoices : loadSolverPreset(i)) /\ UNCHANGED vizVars
SolverNumbers ==
  /\ \E x0 \in X0Choices, xe \in XEndChoices, h \in HChoices :
       setParameters(x0, xe, h)
  /\ UNCHANGED vizVars
SolveBegin == solveBegin /\ UNCHANGED vizVars
RunCall ==
  /\ loopTest \/ stageK1 \/ stageK2 \/ stageK3 \/ stageK4 \/ loopUpdate
  /\ UNCHANGED vizVars

SolverNext ==
  \/ SolverType
  \/ SolverPreset
  \/ SolverNumbers
  \/ SolveBegin
  \/ RunCall

SolverSpec == Init /\ [][SolverNext]_vars

\* The running call moves on to its next statement (RunCall always does, and
\* is possible exactly while a call runs).
CallAdvances ==
  /\ pc # "idle"
  /\ pc' \in {"idle", "test", "k1", "k2", "k3", "k4", "update"}

\* A started call keeps running: the engine executes the handler's next step.
FairSolverSpec == SolverSpec /\ WF_pc(CallAdvances)

(* ------------------------------- claims -------------------------------- *)

\* A run of rungeKutta4 that ends was never cut by the model's record of its
\* points.
SolverRunsFit ==
  (pc = "test" /\ ~WhileCondition) => Len(call.points) < MaxSolverPoints

\* C1: every integration call terminates: a started solveEquation (its
\* rungeKutta4 loop) eventually returns, whatever equation, seed, end point
\* and step size were entered.
C1_EveryIntegrationTerminates == (pc # "idle") ~> (pc = "idle")

(* --------------------- claims: bounded-box geometry -------------------- *)

\* The point p lies in the rectangle xr x yr.
InRect(p, xr, yr) ==
  /\ p[1] >= xr[1] /\ p[1] <= xr[2]
  /\ p[2] >= yr[1] /\ p[2] <= yr[2]

HasRun == lastRun # <<>>
Seed == <<lastRun.x0, lastRun.y0>>
InBox(p) == InRect(p, lastRun.xRange, lastRun.yRange)

\* The two runs of the last add, and the stored curve it produced (while it
\* is still in the collection).
Runs == {lastRun.forward, lastRun.backward}
Stored ==
  {solutionCurves[i].points : i \in {j \in 1..Len(solutionCurves) :
                                       solutionCurves[j].id = lastRun.id}}

\* C2 as stated: no point appended by a step lies outside the rectangle.
C2_NoOutsidePointEmitted ==
  HasRun => \A r \in Runs : \A i \in 2..Len(r) : InBox(r[i])

\* C2, amended: a step that leaves the rectangle ends the run, but its point
\* is emitted: a point appended by a step lies outside the rectangle only if
\* it is the last point of the run.
C2_OutsidePointIsLast ==
  HasRun => \A r \in Runs : \A i \in 2..Len(r) : ~InBox(r[i]) => i = Len(r)

\* A run of several steps that ended on a point outside the rectangle.
C2_Witness ==
  HasRun /\ \E r \in Runs : Len(r) >= 3 /\ ~InBox(r[Len(r)])

\* C3 as stated: in every run and in the stored (spliced) trajectory, every
\* point but the last lies inside the rectangle configured at generation.
C3_AllButLastInside ==
  HasRun =>
    /\ \A r \in Runs : \A i \in 1..(Len(r) - 1) : InBox(r[i])
    /\ \A t \in Stored : \A i \in 1..(Len(t) - 1) : InBox(t[i])

\* C3, amended: in a single run every point but the last lies inside the
\* rectangle; in the stored trajectory every point but the first and the
\* last does (its first point is the far end of the backward run).
C3_AllButEndsInside ==
  HasRun =>
    /\ \A r \in Runs : \A i \in 1..(Len(r) - 1) : InBox(r[i])
    /\ \A t \in Stored : \A i \in 2..(Len(t) - 1) : InBox(t[i])

\* A stored trajectory whose first and last points are both outside.
C3_Witness ==
  HasRun /\ \E t \in Stored :
    Len(t) >= 3 /\ ~InBox(t[1]) /\ ~InBox(t[Len(t)]) /\ InBox(Seed)

\* C4 as stated: every trajectory, a single run or a stored one, has at most
\* maxSteps + 1 points.
C4_AtMostMaxStepsPlusOne ==
  HasRun =>
    /\ \A r \in Runs : Len(r) <= maxSteps + 1
    /\ \A t \in Stored : Len(t) <= maxSteps + 1

\* C4, amended: a single run has at most maxSteps + 1 points; a stored
\* trajectory, spliced from two runs, has at most 2 * maxSteps + 1.
C4_RunAndSpliceBounds ==
  HasRun =>
    /\ \A r \in Runs : Len(r) <= maxSteps + 1
    /\ \A t \in Stored : Len(t) <= 2 * maxSteps + 1

\* A run that took all maxSteps steps, stored in a longer trajectory.
C4_Witness ==
  HasRun /\ Len(lastRun.forward) = maxSteps + 1
         /\ \E t \in Stored : Len(t) > maxSteps + 1

\* The seed of the last add lies on the right (left) edge of the rectangle,
\* so that the first forward (backward) step moves outward.
OnRightEdge == InBox(Seed) /\ lastRun.x0 = lastRun.xRange[2]
OnLeftEdge == InBox(Seed) /\ lastRun.x0 = lastRun.xRange[1]

\* C5 as stated: a run started on an edge and moving outward returns the
\* seed alone.
C5_EdgeSeedAlone ==
  HasRun =>
    /\ OnRightEdge => Len(lastRun.forward) = 1
    /\ OnLeftEdge => Len(lastRun.backward) = 1

\* C5, amended: a run started on an edge and moving outward returns the seed
\* and exactly one further point, the out-of-range point of its first step.
C5_EdgeSeedPlusOne ==
  HasRun =>
    /\ OnRightEdge =>
         Len(lastRun.forward) = 2 /\ ~InBox(lastRun.forward[2])
    /\ OnLeftEdge =>
         Len(lastRun.backward) = 2 /\ ~InBox(lastRun.backward[2])
    /\ \A r \in Runs : (InBox(Seed) /\ Len(r) >= 2 /\ ~InBox(r[2])) => Len(r) = 2

\* An add whose seed was on the right edge of the rectangle.
C5_Witness == HasRun /\ OnRightEdge /\ Len(lastRun.forward) = 2

\* C6: for a seed inside the rectangle the stored trajectory holds the seed
\* exactly once, at the position given by the length of the backward run
\* (0-based index: backward length - 1).
C6_SeedExactlyOnce ==
  (HasRun /\ InBox(Seed)) =>
    \A t \in Stored :
      /\ Len(lastRun.backward) \in 1..Len(t)
      /\ t[Len(lastRun.backward)] = Seed
      /\ \A i \in 1..Len(t) : t[i] = Seed => i = Len(lastRun.backward)

\* A stored trajectory with points on both sides of its inside seed.
C6_Witness ==
  HasRun /\ InBox(Seed) /\ Len(lastRun.backward) >= 3
         /\ Len(lastRun.forward) >= 3 /\ Stored # {}

(* ----------------------- claims: curve collection ---------------------- *)

LiveIds == {solutionCurves[i].id : i \in 1..Len(solutionCurves)}

\* C7: ids are strictly increasing in creation order and never reused: the
\* id of a created curve is greater than the id of every curve created
\* before it, whatever removes, clears and preset loads came in between.
C7_IdsStrictlyIncreasing ==
  /\ \A i, j \in 1..Len(createdIds) : i < j => createdIds[i] < createdIds[j]
  /\ \A i, j \in 1..Len(solutionCurves) :
       i < j => solutionCurves[i].id < solutionCurves[j].id
  /\ \A id \in LiveIds : \E i \in 1..Len(createdIds) : createdIds[i] = id

\* Three curves were created, the last one after a preset load had emptied
\* the collection, so that it is the only live one.
C7_Witness ==
  /\ Len(createdIds) = 3
  /\ Len(solutionCurves) = 1
  /\ solutionCurves[1].id = createdIds[3]
  /\ equation # presetEquations[1]

\* C8: an add gives the new curve the palette colour at index (number of
\* live curves immediately before the add) mod 6.
C8_ColourByLiveCount ==
  [][Len(createdIds') = Len(createdIds) + 1 =>
       /\ Len(solutionCurves') = Len(solutionCurves) + 1
       /\ solutionCurves'[Len(solutionCurves')].color
            = colors[(Len(solutionCurves) % 6) + 1]]_vars

\* A curve added after a removal: its colour follows the live count (1),
\* not the number of curves created so far (2).
C8_Witness ==
  /\ Len(solutionCurves) = 2
  /\ solutionCurves[2].id = 2
  /\ solutionCurves[2].color = colors[2]

\* C9: removing an id that is not in the collection is possible (raises no
\* error) and leaves the collection unchanged; clearing is possible and
\* leaves the collection empty whatever it held.
C9_UnknownRemoveAndClear ==
  pendingTicks = 0 =>
    /\ \A id \in (0..MaxIds) \ LiveIds :
         /\ ENABLED removeCurve(id)
         /\ ~ENABLED (removeCurve(id) /\ solutionCurves' # solutionCurves)
    /\ ENABLED clearSolutionCurves
    /\ ~ENABLED (clearSolutionCurves /\ solutionCurves' # <<>>)

\* A collection of several curves from which an id created earlier is
\* missing: removing that id again is the unknown-id case.
C9_Witness ==
  /\ pendingTicks = 0
  /\ Len(solutionCurves) >= 2
  /\ \E i \in 1..Len(createdIds) : createdIds[i] \notin LiveIds
  /\ \A id \in (0..MaxIds) \ LiveIds :
       ENABLED (removeCurve(id) /\ solutionCurves' = solutionCurves)

\* C10 as stated: a change of the equation, typed or loaded from a preset,
\* leaves the collection of curves unchanged.
C10_EquationChangeKeepsCurves ==
  [][equation' # equation => solutionCurves' = solutionCurves]_vars

\* C10, amended: typing a new equation leaves the collection of curves
\* unchanged; loading a preset empties it.
C10_TypingKeepsPresetClears ==
  [][equation' # equation =>
       IF \E i \in DOMAIN presetEquations : loadPreset(i)
         THEN solutionCurves' = <<>>
         ELSE solutionCurves' = solutionCurves]_vars

\* A curve that survived the typing of a new equation: the field on screen
\* is still the one of the equation the curve was generated with.
C10_Witness ==
  /\ equation \in TypedEquations
  /\ Len(solutionCurves) = 1
  /\ pendingTicks = 1
  /\ drawnField # <<>>
  /\ drawnField.equation # equation

(* ------------------------ claims: bounds and slopes -------------------- *)

\* C11: a change of the domain bounds, and the redraw it queues, leave every
\* stored curve's id, points and colour unchanged.
C11_BoundsChangeKeepsCurves ==
  [][(xRange' # xRange \/ yRange' # yRange \/ pendingTicks' < pendingTicks)
       => solutionCurves' = solutionCurves]_vars

\* The curve of the last click was generated in a rectangle that differs from
\* the current one in x and in y, and has been redrawn against the new one.
C11_Witness ==
  /\ HasRun
  /\ Stored # {}
  /\ lastRun.xRange # xRange
  /\ lastRun.yRange # yRange
  /\ pendingTicks = 0
  /\ drawnCurves = CurvesDrawing(solutionCurves, xRange, yRange)

\* The slope field on screen, sampled from what it was drawn from.
DrawnSamples ==
  FieldSamples(drawnField.equation, drawnField.xRange, drawnField.yRange,
               drawnField.gridDensity)

\* Every slope of the samples s satisfies P.
AllSlopes(s, P(_)) == \A k \in 1..Len(s) : P(s[k][3])

\* The call of the closure the solver makes next, at const k1 = h * f(x, y).
NextSolverSlope == SolverSlope(call.f, call.x, call.y)

\* C12: the compiled slope function never raises, in either mode: where the
\* evaluator raises or yields a non-finite value it returns 0.  In the field
\* every grid point has an arrow with a finite slope; in the solver the call
\* of the closure does not raise and yields a finite value.
C12_SlopeNeverRaises ==
  /\ drawnField # <<>> => AllSlopes(DrawnSamples, LAMBDA v : isFinite(v))
  /\ pc = "k1" =>
       ~NextSolverSlope.raised /\ isFinite(NextSolverSlope.value)

\* The samples s of the field of the expression text obey the singularity
\* guard: slope 0 where x (y) is within 1e-10 of 0 and the text has '/x' ('/y').
GuardedSamples(s, text) ==
  \A k \in 1..Len(s) :
    /\ (Includes(text, "/x") /\ NearZero(s[k][1])) => s[k][3] = 0
    /\ (Includes(text, "/y") /\ NearZero(s[k][2])) => s[k][3] = 0

\* C13: singularity guard: for an expression whose text contains '/x' ('/y')
\* the compiled slope function returns 0 and does not raise whenever
\* |x| < 1e-10 (|y| < 1e-10), in the field and in the solver.
C13_SingularityGuard ==
  /\ drawnField # <<>> =>
       GuardedSamples(DrawnSamples, VizParseEquation(drawnField.equation).text)
  /\ (pc = "k1" /\ ( \/ Includes(call.f.text, "/x") /\ NearZero(call.x)
                     \/ Includes(call.f.text, "/y") /\ NearZero(call.y)))
       => ~NextSolverSlope.raised /\ NextSolverSlope.value = 0

(* --------------------------- claims: the solver ------------------------ *)

\* The step of solveEquation that ends the call (return or catch).
CallEnds == pc # "idle" /\ pc' = "idle"

\* The step log is exactly one error entry.
ErrorOutcome(steps) == Len(steps) = 1 /\ steps[1].step = "error"

\* C14: in solver mode, for every malformed equation and every x0, y0, xEnd
\* and h, solveEquation ends with the step log being exactly one error
\* entry, never the four success entries.
C14_MalformedEndsInError ==
  [][(CallEnds /\ call.f.throws) => ErrorOutcome(solutionSteps')]_vars

\* C15: whenever the most recent solveEquation ended in error, the stored
\* trajectory is empty and the step log holds exactly the error entry.
C15_ErrorLeavesNoTrajectory ==
  (pc = "idle" /\ solutionSteps # <<>> /\ solutionSteps[1].step = "error")
    => (solution = <<>> /\ Len(solutionSteps) = 1)

\* C17: a successful solveEquation leaves exactly four entries, in the order
\* equation, initial condition, method and parameters, count; they echo the
\* equation, x0, y0, h and xEnd the integration used, and the count is the
\* length of the stored trajectory, which is the one rungeKutta4 returned.
C17_FourEntriesEchoTheRun ==
  [][(CallEnds /\ ~ErrorOutcome(solutionSteps')) =>
       /\ SolverParseEquation(solverEquation) = call.f
       /\ solution' = call.points
       /\ solutionSteps' =
            <<[step |-> "1", description |-> "parse the equation",
               result |-> <<"equation", solverEquation>>],
              [step |-> "2", description |-> "set the initial condition",
               result |-> <<"initial", call.points[1][1], call.points[1][2]>>],
              [step |-> "3", description |-> "solve with RK4",
               result |-> <<"method", call.h, call.points[1][1], call.xEnd>>],
              [step |-> "4", description |-> "numerical solution done",
               result |-> <<"count", Len(solution')>>]>>]_vars

\* A solve with a step size and an end point other than the defaults has
\* succeeded.
C17_Witness ==
  /\ pc = "idle"
  /\ Len(solutionSteps) = 4
  /\ solutionSteps[3].result = <<"method", Scale \div 4, 0, Scale>>
  /\ solutionSteps[4].result = <<"count", 5>>
  /\ Len(solution) = 5

\* The text is empty or holds blanks only.
WhitespaceOnly(s) == \A i \in 1..Len(s) : SubSeq(s, i, i) = " "

\* C18: solveEquation with an empty or whitespace-only equation can be called
\* and is a no-op: the stored trajectory, the step log and the loading flag
\* are left as they were, and no error entry is produced.
C18_BlankSolveIsNoOp ==
  (pc = "idle" /\ WhitespaceOnly(solverEquation)) =>
    /\ ENABLED solveBegin
    /\ ~ENABLED (solveBegin /\ <<solution, solutionSteps, isLoading, pc>>'
                                 # <<solution, solutionSteps, isLoading, pc>>)

\* A whitespace-only equation is in the input while the results of an earlier
\* successful solve are stored; solving now leaves them.
C18_Witness ==
  /\ pc = "idle"
  /\ solverEquation = " "
  /\ Len(solutionSteps) = 4
  /\ Len(solution) >= 2
  /\ ENABLED (solveBegin /\ UNCHANGED <<solution, solutionSteps, isLoading>>)

\* C19: for a valid equation and h > 0 the trajectory of rungeKutta4 starts
\* with the seed (x0, y0), and consecutive x-coordinates increase by exactly
\* h at every step until the call returns.
C19_SeedFirstThenStepsOfH ==
  (pc # "idle" /\ ~call.f.throws /\ call.h > 0) =>
    /\ call.points[1] = <<initialX, initialY>>
    /\ \A i \in 1..(Len(call.points) - 1) :
         call.points[i + 1][1] = call.points[i][1] + call.h
    /\ call.x = call.points[Len(call.points)][1]

\* A run of several steps of a valid equation is about to return.
C19_Witness ==
  /\ pc = "test"
  /\ ~call.f.throws
  /\ call.h > 0
  /\ ~WhileCondition
  /\ Len(call.points) >= 5

(* ----------------------- claims: the slope field ----------------------- *)

\* The evaluator rejects the expression of the equation text.
Rejected(eq) == VizParseEquation(eq).throws

\* Every point of the trajectory t has the ordinate y.
Horizontal(t, y) == \A i \in 1..Len(t) : t[i][2] = y

\* C16: in visualization mode, with an equation the evaluator rejects, every
\* slope query returns 0: the field has an arrow of slope 0 at every grid
\* point, and a curve added at (x0, y0) is the horizontal line y = y0 (with
\* steps on both sides of a seed inside the rectangle).
C16_RejectedEquationIsZeroField ==
  /\ (drawnField # <<>> /\ Rejected(drawnField.equation)) =>
       /\ Len(DrawnSamples) >= drawnField.gridDensity * drawnField.gridDensity
       /\ AllSlopes(DrawnSamples, LAMBDA v : v = 0)
  /\ (HasRun /\ Rejected(lastRun.equation)) =>
       /\ \A r \in Runs : Horizontal(r, lastRun.y0)
       /\ \A t \in Stored : Horizontal(t, lastRun.y0)
       /\ InBox(Seed) => \A r \in Runs : Len(r) >= 2

\* A curve was added under a rejected equation, from a seed inside the
\* rectangle, and the field on screen was drawn from that equation.
C16_Witness ==
  /\ HasRun
  /\ Rejected(lastRun.equation)
  /\ drawnField # <<>>
  /\ drawnField.equation = lastRun.equation
  /\ InBox(Seed)
  /\ \E t \in Stored : Len(t) >= 100

\* The number of values lo, lo + step, lo + 2 step, ... that are <= hi.
AxisCount(lo, hi, step) == ((hi - lo) \div step) + 1

\* The samples s are the grid of cx by cy points from (xr[1], yr[1]), spaced
\* by stepX and stepY, in the order of the loops (x outside, y inside).
IsGrid(s, xr, yr, stepX, stepY, cx, cy) ==
  /\ Len(s) = cx * cy
  /\ \A k \in 1..Len(s) :
       /\ s[k][1] = xr[1] + ((k - 1) \div cy) * stepX
       /\ s[k][2] = yr[1] + ((k - 1) % cy) * stepY

\* Each slope of the samples s is the compiled function f at its point; each
\* is the sum of its point's coordinates.
SlopesAre(s, f) == \A k \in 1..Len(s) : s[k][3] = VizSlope(f, s[k][1], s[k][2])
SlopesAreSums(s) == \A k \in 1..Len(s) : s[k][3] = s[k][1] + s[k][2]

\* C20 as stated: field sampling with grid density n yields exactly n * n
\* triples.
C20_ExactlyNSquared ==
  drawnField # <<>> =>
    Len(DrawnSamples) = drawnField.gridDensity * drawnField.gridDensity

\* C20, amended: field sampling with grid density n divides each side of the
\* bounds in n steps and visits every grid point from the lower bound up to
\* and including the upper one: n + 1 points per axis when the n-th step
\* lands on or before the upper bound, n when it lands beyond it.  It yields
\* one triple per grid point, evenly spaced, none skipped, each slope equal
\* to f at its grid point (x + y for dy/dx = x + y).
C20_GridOfSamples ==
  drawnField # <<>> =>
    LET n == drawnField.gridDensity
        xr == drawnField.xRange
        yr == drawnField.yRange
        stepX == RoundDiv(xr[2] - xr[1], n)
        stepY == RoundDiv(yr[2] - yr[1], n)
        cx == AxisCount(xr[1], xr[2], stepX)
        cy == AxisCount(yr[1], yr[2], stepY)
        f == VizParseEquation(drawnField.equation)
    IN  /\ cx \in {n, n + 1} /\ cy \in {n, n + 1}
        /\ (n * stepX <= xr[2] - xr[1]) <=> (cx = n + 1)
        /\ (n * stepY <= yr[2] - yr[1]) <=> (cy = n + 1)
        /\ IsGrid(DrawnSamples, xr, yr, stepX, stepY, cx, cy)
        /\ AllSlopes(DrawnSamples, LAMBDA v : isFinite(v))
        /\ SlopesAre(DrawnSamples, f)
        /\ drawnField.equation = "dy/dx = x + y" => SlopesAreSums(DrawnSamples)

\* The default field at density 10: 11 by 11 arrows, the middle one at the
\* origin with slope 0.
C20_Witness ==
  /\ drawnField # <<>>
  /\ drawnField.gridDensity = 10
  /\ drawnField.equation = "dy/dx = x + y"
  /\ Len(DrawnSamples) = 121
  /\ DrawnSamples[61] = <<0, 0, 0>>

\* No sample of s lies on a grid point where the expression of f has a
\* non-finite value.
NoSampleAtNonFinite(s, f) ==
  \A k \in 1..Len(s) : isFinite(Evaluate(f.expr, s[k][1], s[k][2]))

\* C21: field sampling emits no triple for a grid point where the value of
\* the expression is non-finite: the point is skipped, not given slope 0.
C21_NonFinitePointsSkipped ==
  (drawnField # <<>> /\ ~Rejected(drawnField.equation)) =>
    NoSampleAtNonFinite(DrawnSamples, VizParseEquation(drawnField.equation))

(* ---------------------- claims: the solver's numbers ------------------- *)

\* The point the scheme k1..k4, y' = y + (k1 + 2 k2 + 2 k3 + k4) / 6,
\* x' = x + h yields from the point p, for the solver's compiled function f.
SchemeStep(f, h, p) ==
  LET x == p[1]
      y == p[2]
      k1 == Mul(h, SolverSlope(f, x, y).value)
      k2 == Mul(h, SolverSlope(f, Add(x, DivInt(h, 2)),
                               Add(y, DivInt(k1, 2))).value)
      k3 == Mul(h, SolverSlope(f, Add(x, DivInt(h, 2)),
                               Add(y, DivInt(k2, 2))).value)
      k4 == Mul(h, SolverSlope(f, Add(x, h), Add(y, k3)).value)
  IN  <<Add(x, h),
        Add(y, DivInt(Add(Add(Add(k1, MulInt(2, k2)), MulInt(2, k3)), k4), 6))>>

\* The running call is the scenario dy/dx = -x, seed (0, 1), h = 0.1, xEnd = 1.
OscillationRun ==
  /\ pc # "idle"
  /\ call.f.expr = "-x"
  /\ call.h = Scale \div 10
  /\ call.xEnd = Scale
  /\ call.points[1] = <<0, Scale>>

\* |y - (1 - x^2 / 2)| <= 1e-4 for the point p, in units of 1 / Scale.
NearParabola(p) ==
  10000 * Abs(2 * Scale * (Scale - p[2]) - p[1] * p[1]) <= 2 * Scale * Scale

\* C22: with dy/dx = -x, seed (0, 1), h = 0.1 and xEnd = 1, each point of the
\* trajectory follows from the one before by the RK4 scheme, and the
\* trajectory's y at x = 1 is within 1e-4 of 0.5 (every point is within 1e-4
\* of the analytic solution y = 1 - x^2 / 2).
C22_OscillationScenario ==
  OscillationRun =>
    /\ \A i \in 1..(Len(call.points) - 1) :
         call.points[i + 1] = SchemeStep(call.f, call.h, call.points[i])
    /\ \A i \in 1..Len(call.points) : NearParabola(call.points[i])
    /\ \A i \in 1..Len(call.points) :
         call.points[i][1] = Scale =>
           10000 * Abs(2 * call.points[i][2] - Scale) <= 2 * Scale
    /\ (pc = "test" /\ ~WhileCondition) =>
         \E i \in 1..Len(call.points) : call.points[i][1] = Scale

\* The scenario's run is about to return, its point at x = 1 computed.
C22_Witness ==
  /\ OscillationRun
  /\ pc = "test"
  /\ ~WhileCondition
  /\ Len(call.points) >= 11
  /\ call.points[11] = <<Scale, Scale \div 2>>

\* The loading flag is false whenever no call is running.
ReadyWhenIdle == pc = "idle" => ~isLoading

\* A call with a valid equation ends with the four success entries and the
\* trajectory it computed, whatever the earlier calls left.
ValidSolveSucceeds ==
  (CallEnds /\ ~call.f.throws) =>
    /\ Len(solutionSteps') = 4
    /\ solutionSteps'[4].step = "4"
    /\ solution' = call.points

\* C23: the solver session always returns to its ready state: every call of
\* solveEquation ends, with the loading flag false, and a solve with a valid
\* equation after any number of failed ones yields the four success entries
\* and a fresh trajectory.
C23_AlwaysBackToReady ==
  /\ []ReadyWhenIdle
  /\ [][ValidSolveSucceeds]_vars
  /\ (isLoading ~> ~isLoading)

\* The least n >= 0 with x0 + n * h >= xe, for h > 0, in exact arithmetic.
LeastSteps(x0, h, xe) ==
  IF x0 >= xe THEN 0 ELSE ((xe - x0) + (h - 1)) \div h

\* The seed's abscissa of the running call.
CallSeedX == call.points[1][1]

\* C26: for h > 0 rungeKutta4 returns exactly 1 + n points, n being the
\* least n >= 0 with x0 + n*h >= xEnd; every point but the last has
\* x < xEnd (the loop body runs only from such a point), the last point of a
\* run of n > 0 steps has xEnd <= x < xEnd + h, and with x0 >= xEnd the
\* result is the seed alone and the slope function is never called.
C26_OnePlusLeastSteps ==
  (pc # "idle" /\ call.h > 0) =>
    LET n == LeastSteps(CallSeedX, call.h, call.xEnd)
    IN  /\ Len(call.points) <= 1 + n
        /\ pc # "test" => WhileCondition
        /\ CallSeedX >= call.xEnd => (pc = "test" /\ Len(call.points) = 1)
        /\ (pc = "test" /\ ~WhileCondition) =>
             /\ Len(call.points) = 1 + n
             /\ n > 0 =>
                  DoubleLt(call.xd, DoubleAdd(call.xEndd, call.hd))

(* ---------------------- claims: the stored trajectory ------------------ *)

\* The last point of a run: its far end.
FarEnd(r) == r[Len(r)]

\* Consecutive points of t are one step of 0.05 apart in x, left to right.
EvenlySpaced(t) ==
  \A i \in 1..(Len(t) - 1) : t[i + 1][1] = t[i][1] + CurveH

AddStep == createdIds' # createdIds

\* The seed of the add of this step lies in the rectangle.
AddedSeedInside ==
  InRect(<<lastRun'.x0, lastRun'.y0>>, xRange, yRange)

\* C28: every call of addSolutionCurve appends exactly one curve, of at
\* least one point, at the end of the collection and leaves the curves that
\* were there unchanged; for a seed outside the rectangle the new curve is
\* the seed point alone.
C28_AddAppendsOneCurve ==
  [][AddStep =>
       LET n == Len(solutionCurves)
       IN  /\ Len(solutionCurves') = n + 1
           /\ SubSeq(solutionCurves', 1, n) = solutionCurves
           /\ Len(solutionCurves'[n + 1].points) >= 1
           /\ ~AddedSeedInside =>
                solutionCurves'[n + 1].points =
                  <<<<lastRun'.x0, lastRun'.y0>>>>]_vars

\* Two curves: one of many points, then the one-point curve of a seed that
\* was outside the rectangle.
C28_Witness ==
  /\ HasRun
  /\ ~InBox(Seed)
  /\ Len(solutionCurves) = 2
  /\ Len(solutionCurves[1].points) >= 3
  /\ solutionCurves[2].id = lastRun.id
  /\ solutionCurves[2].points = <<Seed>>

\* The collection cs less its element at position k.
Without(cs, k) == SubSeq(cs, 1, k - 1) \o SubSeq(cs, k + 1, Len(cs))

\* The position in the collection of the live curve with this id.
PositionOf(id) == CHOOSE k \in 1..Len(solutionCurves) : solutionCurves[k].id = id

\* C29: removeCurve with the id of a live curve is possible and removes
\* exactly that curve: the others keep id, points, colour and order, and the
\* id counter is unchanged; the ids of the live curves are pairwise distinct
\* in every state.
C29_RemoveTakesExactlyOne ==
  /\ \A i, j \in 1..Len(solutionCurves) :
       i # j => solutionCurves[i].id # solutionCurves[j].id
  /\ pendingTicks = 0 =>
       \A id \in LiveIds :
         /\ ENABLED removeCurve(id)
         /\ ~ENABLED (/\ removeCurve(id)
                      /\ ~(/\ solutionCurves' =
                                Without(solutionCurves, PositionOf(id))
                           /\ curveIdCounter' = curveIdCounter))

\* Three live curves left after a curve created between two of them was
\* removed.
C29_Witness ==
  /\ pendingTicks = 0
  /\ Len(solutionCurves) = 3
  /\ \E i \in 1..Len(createdIds) :
       /\ createdIds[i] \notin LiveIds
       /\ createdIds[i] > solutionCurves[1].id
       /\ createdIds[i] < solutionCurves[3].id
  /\ \A id \in LiveIds :
       ENABLED (removeCurve(id) /\ Len(solutionCurves') = 2)

(* ------------------------------ claims: redraws ------------------------ *)

\* One of the six watched refs changes in this step.
WatchedChange ==
  \/ equation' # equation
  \/ xRange' # xRange
  \/ yRange' # yRange
  \/ gridDensity' # gridDensity
  \/ showGrid' # showGrid
  \/ arrowLength' # arrowLength

\* The field and the curves on screen are drawn from the current values.
DrawingIsCurrent ==
  /\ drawnField = FieldDrawing(equation, xRange, yRange)
  /\ drawnCurves = CurvesDrawing(solutionCurves, xRange, yRange)

DistinctColors(cs) ==
  \A i, j \in 1..Len(cs) : i # j => cs[i].color # cs[j].color

\* C25: whenever at most six curves are live (as many as there are colours),
\* no two live curves have the same colour.
C25_LiveColorsDiffer ==
  Len(solutionCurves) <= Len(colors) => DistinctColors(solutionCurves)

=============================================================================
